---- MODULE Spec2Model ----
(***************************************************************************)
(* Model of the top level router of ctzn (static/js/app.js, class CtznApp).*)
(*                                                                         *)
(* A path is a sequence of one-character strings, so that the three        *)
(* regular expressions of app.js are matched character by character.       *)
(***************************************************************************)
EXTENDS Integers, Sequences, FiniteSets, TLC

\* ------------------------------------------------------------------------
\* Bounds of the model
\* ------------------------------------------------------------------------
MaxScroll == 1      \* window.scrollY ranges over 0..MaxScroll
MaxHist == 2        \* most session-history entries the browser keeps
MaxPending == 2     \* most scroll restorations awaiting updateComplete
MaxComposed == 2    \* longest composedPath() of a click event
MaxSegs == 4        \* most path segments of a resolver input

\* ------------------------------------------------------------------------
\* Path strings
\* ------------------------------------------------------------------------
ROOT == <<"/">>
INDEX == <<"/", "i", "n", "d", "e", "x">>
INDEX_HTML == <<"/", "i", "n", "d", "e", "x", ".", "h", "t", "m", "l">>
FORGOT_PASSWORD ==
  <<"/", "f", "o", "r", "g", "o", "t", "-", "p", "a", "s", "s", "w", "o", "r", "d">>
NOTIFICATIONS ==
  <<"/", "n", "o", "t", "i", "f", "i", "c", "a", "t", "i", "o", "n", "s">>
COMMUNITIES == <<"/", "c", "o", "m", "m", "u", "n", "i", "t", "i", "e", "s">>
ACCOUNT == <<"/", "a", "c", "c", "o", "u", "n", "t">>
SEARCH == <<"/", "s", "e", "a", "r", "c", "h">>
SIGNUP == <<"/", "s", "i", "g", "n", "u", "p">>

\* the paths the switch of render() enumerates
EnumeratedPaths ==
  {ROOT, INDEX, INDEX_HTML, FORGOT_PASSWORD, NOTIFICATIONS, COMMUNITIES,
   ACCOUNT, SEARCH, SIGNUP}

\* ------------------------------------------------------------------------
\* Regular expressions
\* ------------------------------------------------------------------------
\* A pattern is a sequence of tokens: a literal character, '.' or '[^/]+'.
Lit(c) == [t |-> "lit", c |-> c]
Dot == [t |-> "dot", c |-> "."]
NotSlashPlus == [t |-> "nsp", c |-> "/"]

\* the canonical case of a character, as the 'i' flag compares them
Canonicalize(c) ==
  CASE c = "A" -> "a" [] c = "B" -> "b" [] c = "C" -> "c" [] c = "E" -> "e"
    [] c = "K" -> "k" [] c = "M" -> "m" [] c = "N" -> "n" [] c = "O" -> "o"
    [] c = "P" -> "p" [] c = "R" -> "r" [] c = "S" -> "s" [] c = "T" -> "t"
    [] c = "W" -> "w" [] c = "X" -> "x" [] c = "Z" -> "z"
    [] OTHER -> c

\* '/([^/]+@[^/]+)'
IdentityTokens == <<Lit("/"), NotSlashPlus, Lit("@"), NotSlashPlus>>

\* '/ctzn.network/'
NamespaceTokens ==
  <<Lit("/"), Lit("c"), Lit("t"), Lit("z"), Lit("n"), Dot, Lit("n"), Lit("e"),
    Lit("t"), Lit("w"), Lit("o"), Lit("r"), Lit("k"), Lit("/")>>

POST_PATH_REGEX ==
  [tokens |-> IdentityTokens \o NamespaceTokens
                \o <<Lit("p"), Lit("o"), Lit("s"), Lit("t"), Lit("/"), NotSlashPlus>>,
   ignoreCase |-> TRUE]

COMMENT_PATH_REGEX ==
  [tokens |-> IdentityTokens \o NamespaceTokens
                \o <<Lit("c"), Lit("o"), Lit("m"), Lit("m"), Lit("e"), Lit("n"), Lit("t"),
                     Lit("/"), NotSlashPlus>>,
   ignoreCase |-> TRUE]

USER_PATH_REGEX == [tokens |-> IdentityTokens, ignoreCase |-> FALSE]

\* does character c match the one-character token tok
CharMatches(tok, c, ignoreCase) ==
  CASE tok.t = "dot" -> TRUE
    [] tok.t = "nsp" -> c # "/"
    [] OTHER -> IF ignoreCase THEN Canonicalize(c) = Canonicalize(tok.c) ELSE c = tok.c

\* can tokens ti.. of the pattern match a prefix of s that starts at index i
RECURSIVE MatchAt(_, _, _, _)
MatchAt(re, s, i, ti) ==
  IF ti > Len(re.tokens) THEN TRUE
  ELSE IF i > Len(s) THEN FALSE
  ELSE LET tok == re.tokens[ti] IN
       IF tok.t = "nsp"
       THEN /\ CharMatches(tok, s[i], re.ignoreCase)
            /\ \/ MatchAt(re, s, i + 1, ti)        \* one more character
               \/ MatchAt(re, s, i + 1, ti + 1)    \* or go on with the pattern
       ELSE /\ CharMatches(tok, s[i], re.ignoreCase)
            /\ MatchAt(re, s, i + 1, ti + 1)

\* RegExp.prototype.test without the g or y flag: a match at any index
Test(re, s) == \E i \in 1..(Len(s) + 1) : MatchAt(re, s, i, 1)

\* ------------------------------------------------------------------------
\* render(): the view the router shows for a path
\* ------------------------------------------------------------------------
NoAttr == <<>>
View(k, p) == [kind |-> k, currentPath |-> p]
NothingRendered == View("none", NoAttr)
ViewKinds ==
  {"spinner", "ctzn-main-view", "ctzn-forgot-password-view", "ctzn-notifications-view",
   "ctzn-communities-view", "ctzn-account-view", "ctzn-search-view", "ctzn-signup-view",
   "ctzn-post-view", "ctzn-user-view", "404"}

\* a render() that tests the profile pattern before the thread patterns
resolveProfileFirst(path) ==
  CASE path \in {ROOT, INDEX, INDEX_HTML} -> View("ctzn-main-view", NoAttr)
    [] path = FORGOT_PASSWORD -> View("ctzn-forgot-password-view", NoAttr)
    [] path = NOTIFICATIONS -> View("ctzn-notifications-view", NoAttr)
    [] path = COMMUNITIES -> View("ctzn-communities-view", NoAttr)
    [] path = ACCOUNT -> View("ctzn-account-view", NoAttr)
    [] path = SEARCH -> View("ctzn-search-view", NoAttr)
    [] path = SIGNUP -> View("ctzn-signup-view", NoAttr)
    [] OTHER ->
         IF Test(USER_PATH_REGEX, path) THEN View("ctzn-user-view", path)
         ELSE IF Test(POST_PATH_REGEX, path) THEN View("ctzn-post-view", path)
         ELSE IF Test(COMMENT_PATH_REGEX, path) THEN View("ctzn-post-view", path)
         ELSE View("404", NoAttr)

\* a render() whose switch lacks the case '/index.html'
resolveNoIndexHtml(path) ==
  CASE path \in {ROOT, INDEX} -> View("ctzn-main-view", NoAttr)
    [] path = FORGOT_PASSWORD -> View("ctzn-forgot-password-view", NoAttr)
    [] path = NOTIFICATIONS -> View("ctzn-notifications-view", NoAttr)
    [] path = COMMUNITIES -> View("ctzn-communities-view", NoAttr)
    [] path = ACCOUNT -> View("ctzn-account-view", NoAttr)
    [] path = SEARCH -> View("ctzn-search-view", NoAttr)
    [] path = SIGNUP -> View("ctzn-signup-view", NoAttr)
    [] OTHER ->
         IF Test(POST_PATH_REGEX, path) THEN View("ctzn-post-view", path)
         ELSE IF Test(COMMENT_PATH_REGEX, path) THEN View("ctzn-post-view", path)
         ELSE IF Test(USER_PATH_REGEX, path) THEN View("ctzn-user-view", path)
         ELSE View("404", NoAttr)

\* the switch statement and the three regular expressions of render()
resolve(path) ==
  CASE path \in {ROOT, INDEX, INDEX_HTML} -> View("ctzn-main-view", NoAttr)
    [] path = FORGOT_PASSWORD -> View("ctzn-forgot-password-view", NoAttr)
    [] path = NOTIFICATIONS -> View("ctzn-notifications-view", NoAttr)
    [] path = COMMUNITIES -> View("ctzn-communities-view", NoAttr)
    [] path = ACCOUNT -> View("ctzn-account-view", NoAttr)
    [] path = SEARCH -> View("ctzn-search-view", NoAttr)
    [] path = SIGNUP -> View("ctzn-signup-view", NoAttr)
    [] OTHER ->
         IF Test(POST_PATH_REGEX, path) THEN View("ctzn-post-view", path)
         ELSE IF Test(COMMENT_PATH_REGEX, path) THEN View("ctzn-post-view", path)
         ELSE IF Test(USER_PATH_REGEX, path) THEN View("ctzn-user-view", path)
         ELSE View("404", NoAttr)

\* a render() that does not look at the loading flag
renderIgnoringLoading(loading, path) == resolve(path)

render(loading, path) ==
  IF loading THEN View("spinner", NoAttr) ELSE resolve(path)



\* ------------------------------------------------------------------------
\* Values of the browser the router reads and writes
\* ------------------------------------------------------------------------
\* the pathnames the model navigates between: the two pages whose scroll
\* position is cached and a third page
NavPaths == {ROOT, NOTIFICATIONS, INDEX}

Offsets == 0..MaxScroll

\* history.state of an entry: null, {} or {scrollY: n}
NullState == [kind |-> "null", scrollY |-> -1]
EmptyState == [kind |-> "object", scrollY |-> -1]     \* {}: scrollY is undefined
ScrollState(y) == [kind |-> "object", scrollY |-> y]  \* {scrollY: y}

\* a session-history entry
Entry(p, st) == [pathname |-> p, state |-> st]

\* this.scrollPositionCache: undefined or {pathname, scrollY}
Undefined == [defined |-> FALSE, pathname |-> <<>>, scrollY |-> 0]
CacheRecord(p, y) == [defined |-> TRUE, pathname |-> p, scrollY |-> y]

\* a click event: e.defaultPrevented and e.composedPath(), target first
ClickEvent(prevented, path) == [defaultPrevented |-> prevented, composedPath |-> path]
NoEvent == ClickEvent(FALSE, <<>>)

\* what the last handler did, as seen from outside
Did(op, navTo, prevented, emitted, scheduled, threw) ==
  [op |-> op,                 \* the handler
   event |-> NoEvent,         \* the click event it was given
   navTo |-> navTo,           \* the arguments of its navigateTo calls
   prevented |-> prevented,   \* it called e.preventDefault()
   emitted |-> emitted,       \* how many 'close-all-popups' it emitted
   scheduled |-> scheduled,   \* the arguments of its scrollToAfterLoad calls
   threw |-> threw,           \* it ended by an exception
   left |-> 0]                \* where the entry it left is now, 0: it left none

\* progress through navigateTo('/notifications'), navigateTo('/'),
\* navigateTo('/notifications') with no history activation in between: how
\* many calls of the sequence the latest navigateTo calls make up,
\* window.scrollY at the second of them and the scrollToAfterLoad calls of
\* the third
Trip(calls, leftAt, restored) == [calls |-> calls, leftAt |-> leftAt, restored |-> restored]
NoTrip == Trip(0, 0, <<>>)

VARIABLES
  isLoading,            \* this.isLoading
  currentPath,          \* this.currentPath
  scrollPositionCache,  \* this.scrollPositionCache
  entries,              \* the session history of the window
  index,                \* the active session-history entry
  scrollY,              \* window.scrollY
  scrollRestoration,    \* history.scrollRestoration
  setup,                \* the promise returned by session.setup()
  loadResult,           \* the promise returned by load()
  updatePending,        \* LitElement: a property changed and render() is due
  view,                 \* what the last render() put in the document
  pending,              \* offsets of scrollToAfterLoad calls awaiting updateComplete
  roundTrip,            \* progress through the round trip between anchor pages
  last                  \* what the last handler did

vars ==
  <<isLoading, currentPath, scrollPositionCache, entries, index, scrollY,
    scrollRestoration, setup, loadResult, updatePending, view, pending, roundTrip, last>>

\* window.location.pathname
LocationPathname == entries[index].pathname

\* a constructor that does not raise the loading flag
InitNotLoading(p) ==
  /\ isLoading = FALSE
  /\ currentPath = p
  /\ scrollPositionCache = Undefined
  /\ entries = <<Entry(p, NullState)>>
  /\ index = 1
  /\ scrollY = 0
  /\ scrollRestoration = "auto"
  /\ setup = "pending"
  /\ loadResult = "pending"
  /\ updatePending = TRUE
  /\ view = NothingRendered
  /\ pending = <<>>
  /\ roundTrip = NoTrip
  /\ last = Did("constructor", <<>>, FALSE, 0, <<>>, FALSE)

\* the state after the constructor ran on a page loaded at path p
InitAt(p) ==
  /\ isLoading = TRUE
  /\ currentPath = p
  /\ scrollPositionCache = Undefined
  /\ entries = <<Entry(p, NullState)>>
  /\ index = 1
  /\ scrollY = 0
  /\ scrollRestoration = "auto"
  /\ setup = "pending"
  /\ loadResult = "pending"
  /\ updatePending = TRUE
  /\ view = NothingRendered
  /\ pending = <<>>
  /\ roundTrip = NoTrip
  /\ last = Did("constructor", <<>>, FALSE, 0, <<>>, FALSE)

Init == \E p \in NavPaths : InitAt(p)

\* Promise reactions run before the browser starts the next task: while one
\* is due, no click, popstate, scroll or fragment navigation is delivered
MicrotaskDue ==
  \/ updatePending
  \/ pending # <<>>
  \/ setup # "pending" /\ loadResult = "pending"

\* ------------------------------------------------------------------------
\* load()
\* ------------------------------------------------------------------------
\* session.setup() settles; the router has not run yet
SetupSettles(outcome) ==
  /\ setup = "pending"
  /\ setup' = outcome
  /\ last' = Did("setup", <<>>, FALSE, 0, <<>>, FALSE)
  /\ UNCHANGED <<isLoading, currentPath, scrollPositionCache, entries, index, scrollY,
                 scrollRestoration, loadResult, updatePending, view, pending, roundTrip>>

\* a load() that clears the flag after the await, outside any finally block
AfterSetupNoFinally(outcome, loading) == IF outcome = "rejected" THEN loading ELSE FALSE

\* this.isLoading after the try statement of load(): the finally block runs
\* whatever the outcome of session.setup()
AfterSetup(outcome, loading) == FALSE

\* the promise of load(): the try statement has no catch clause
LoadResult(outcome) == outcome

\* the rest of load() after the await
load ==
  /\ setup # "pending"
  /\ loadResult = "pending"
  /\ isLoading' = AfterSetup(setup, isLoading)
  /\ updatePending' = (updatePending \/ isLoading # AfterSetup(setup, isLoading))
  /\ loadResult' = LoadResult(setup)
  /\ last' = Did("load", <<>>, FALSE, 0, <<>>, LoadResult(setup) = "rejected")
  /\ UNCHANGED <<currentPath, scrollPositionCache, entries, index, scrollY,
                 scrollRestoration, setup, view, pending, roundTrip>>

\* ------------------------------------------------------------------------
\* navigateTo(pathname)
\* ------------------------------------------------------------------------
\* the index of the first '?' or '#' of url, Len(url) + 1 when it has none
RECURSIVE PathEnd(_, _)
PathEnd(url, i) ==
  IF i > Len(url) THEN i
  ELSE IF url[i] \in {"?", "#"} THEN i
  ELSE PathEnd(url, i + 1)

\* location.pathname after pushState(_, _, url) for a url that starts with '/'
PathnameOf(url) == SubSeq(url, 1, PathEnd(url, 1) - 1)

\* history.scrollRestoration after lines 74-76
ManualScrollRestoration(mode) == IF mode # "undefined" THEN "manual" ELSE mode

\* a capture that forgets the notifications page
CaptureHomeOnly(cache, path, y) ==
  IF path = ROOT THEN CacheRecord(path, y) ELSE cache

\* a capture on every page
CaptureEveryPage(cache, path, y) == CacheRecord(path, y)

\* this.scrollPositionCache after lines 79-87
Capture(cache, path, y) ==
  IF path = ROOT \/ path = NOTIFICATIONS THEN CacheRecord(path, y) ELSE cache

\* the browser keeps the newest MaxHist entries of a session history
Newest(es) == IF Len(es) > MaxHist THEN Tail(es) ELSE es

\* history.replaceState(state, null): the active entry gets the state
ReplaceState(es, i, state) == [es EXCEPT ![i].state = state]

\* history.pushState(state, null, url): the entries after the active one are
\* dropped and a new entry becomes the last and the active one
PushState(es, i, state, url) ==
  Newest(Append(SubSeq(es, 1, i), Entry(PathnameOf(url), state)))

\* a navigateTo that pushes the new entry first and stamps afterwards
PushThenStamp(es, i, y, url) ==
  LET pushed == PushState(es, i, EmptyState, url)
  IN ReplaceState(pushed, Len(pushed), ScrollState(y))

\* the session history after lines 88-89: the active entry is stamped with
\* the window offset, then the entry for url is pushed with the state {}
StampThenPush(es, i, y, url) ==
  PushState(ReplaceState(es, i, ScrollState(y)), i, EmptyState, url)

\* a restoration that does not compare the pathnames
CacheRestorationAnyPath(prev, pathname) ==
  IF prev.defined THEN <<prev.scrollY>> ELSE <<>>

\* the scrollToAfterLoad calls of lines 92-94
CacheRestoration(prev, pathname) ==
  IF prev.defined /\ prev.pathname = pathname THEN <<prev.scrollY>> ELSE <<>>

\* a scrollToAfterLoad that cancels the calls still awaiting
AwaitingLatestOnly(pend, scheduled) == IF scheduled = <<>> THEN pend ELSE scheduled

\* the calls awaiting updateComplete after the scrollToAfterLoad calls
\* scheduled: each call awaits on its own and nothing cancels an earlier one
Awaiting(pend, scheduled) == pend \o scheduled

\* the round trip after one more navigateTo(pathname) at window offset y
\* that made the scrollToAfterLoad calls scheduled
TripAfter(trip, pathname, y, scheduled) ==
  IF trip.calls = 2 /\ pathname = NOTIFICATIONS THEN Trip(3, trip.leftAt, scheduled)
  ELSE IF trip.calls \in {1, 3} /\ pathname = ROOT THEN Trip(2, y, <<>>)
  ELSE IF pathname = NOTIFICATIONS THEN Trip(1, 0, <<>>)
  ELSE NoTrip

\* the body of navigateTo; the caller says what else the handler did
navigateTo(pathname) ==
  LET prevScrollPositionCache == scrollPositionCache
      scheduled == CacheRestoration(prevScrollPositionCache, pathname)
  IN /\ Len(pending) + Len(scheduled) <= MaxPending
     /\ scrollRestoration' = ManualScrollRestoration(scrollRestoration)
     /\ scrollPositionCache' = Capture(scrollPositionCache, currentPath, scrollY)
     /\ entries' = StampThenPush(entries, index, scrollY, pathname)
     /\ index' = Len(entries')
     /\ currentPath' = pathname
     /\ updatePending' = (updatePending \/ currentPath # pathname)
     /\ pending' = Awaiting(pending, scheduled)
     /\ roundTrip' = TripAfter(roundTrip, pathname, scrollY, scheduled)
     /\ UNCHANGED <<isLoading, scrollY, setup, loadResult, view>>

\* the 'navigate-to' event: navigateTo(e.detail.url); a component can
\* dispatch it from inside any other handler
onNavigateTo(url) ==
  /\ navigateTo(url)
  /\ last' = [Did("onNavigateTo", <<url>>, FALSE, 0,
                  CacheRestoration(scrollPositionCache, url), FALSE)
                EXCEPT !.left = index' - 1]

\* ------------------------------------------------------------------------
\* popstate
\* ------------------------------------------------------------------------
\* is e.state.scrollY truthy
Truthy(n) == n > 0

\* a handler that returns at once when the entry has no state
PopstateGuarded(state, pathname, current) ==
  IF state.kind = "null"
  THEN [emitted |-> 0, currentPath |-> current, threw |-> FALSE, scheduled |-> <<>>]
  ELSE [emitted |-> 1, currentPath |-> pathname, threw |-> FALSE,
        scheduled |-> IF Truthy(state.scrollY) THEN <<state.scrollY>> ELSE <<>>]

\* what onHistoryPopstate does with the state of the entry arrived at, the
\* pathname of the location and this.currentPath: line 199 emits, line 200
\* assigns, line 201 reads e.state.scrollY, which throws when e.state is null
Popstate(state, pathname, current) ==
  [emitted |-> 1,
   currentPath |-> pathname,
   threw |-> state.kind = "null",
   scheduled |-> IF state.kind = "object" /\ Truthy(state.scrollY)
                 THEN <<state.scrollY>> ELSE <<>>]

\* the browser moves delta entries through the session history and fires
\* popstate with the state of the entry it arrived at
onHistoryPopstate(delta) ==
  LET target == index + delta
      did == Popstate(entries[target].state, entries[target].pathname, currentPath)
  IN /\ ~MicrotaskDue
     /\ target \in 1..Len(entries)
     /\ Len(pending) + Len(did.scheduled) <= MaxPending
     /\ index' = target
     /\ currentPath' = did.currentPath
     /\ updatePending' = (updatePending \/ currentPath # did.currentPath)
     /\ pending' = Awaiting(pending, did.scheduled)
     /\ last' = [Did("onHistoryPopstate", <<>>, FALSE, did.emitted, did.scheduled, did.threw)
                   EXCEPT !.left = index]
     /\ roundTrip' = NoTrip
     /\ UNCHANGED <<isLoading, scrollPositionCache, entries, scrollY, scrollRestoration,
                    setup, loadResult, view>>

\* ------------------------------------------------------------------------
\* The page around the router
\* ------------------------------------------------------------------------
\* the user scrolls the window
UserScroll(y) ==
  /\ ~MicrotaskDue
  /\ y # scrollY
  /\ scrollY' = y
  /\ last' = Did("scroll", <<>>, FALSE, 0, <<>>, FALSE)
  /\ UNCHANGED <<isLoading, currentPath, scrollPositionCache, entries, index,
                 scrollRestoration, setup, loadResult, updatePending, view, pending,
                 roundTrip>>

\* a navigation to a fragment of the same document that does not pass
\* through the router (location.hash, the address bar): a new entry with the
\* same pathname and a null state
FragmentNavigation ==
  /\ ~MicrotaskDue
  /\ entries' = PushState(entries, index, NullState, entries[index].pathname)
  /\ index' = Len(entries')
  /\ last' = Did("fragment", <<>>, FALSE, 0, <<>>, FALSE)
  /\ roundTrip' = NoTrip
  /\ UNCHANGED <<isLoading, currentPath, scrollPositionCache, scrollY, scrollRestoration,
                 setup, loadResult, updatePending, view, pending>>

\* LitElement commits the pending update: render() runs
PerformUpdate ==
  /\ updatePending
  /\ view' = render(isLoading, currentPath)
  /\ updatePending' = FALSE
  /\ last' = Did("update", <<>>, FALSE, 0, <<>>, FALSE)
  /\ UNCHANGED <<isLoading, currentPath, scrollPositionCache, entries, index, scrollY,
                 scrollRestoration, setup, loadResult, pending, roundTrip>>

\* ------------------------------------------------------------------------
\* scrollToAfterLoad(scrollY), after the await
\* ------------------------------------------------------------------------
\* does the rendered output hold an element with id="view"
HasViewElement(v) == v.kind \notin {"none", "spinner", "404"}

\* a try statement whose exception escapes
CatchNothing(raised) == raised

\* does scrollToAfterLoad end by the exception lines 101-102 raised: the
\* catch clause of line 103 is empty
CatchAll(raised) == FALSE

\* the oldest pending call resumes; hookWorks: the element found has a
\* pageLoadScrollTo that returns normally, moved: it scrolled the window
scrollToAfterLoad(hookWorks, moved) ==
  /\ pending # <<>>
  /\ ~updatePending
  /\ pending' = Tail(pending)
  /\ IF HasViewElement(view) /\ hookWorks
     THEN /\ scrollY' = (IF moved THEN Head(pending) ELSE scrollY)
          /\ last' = Did("pageLoadScrollTo", <<>>, FALSE, 0, <<Head(pending)>>,
                         CatchAll(FALSE))
     ELSE /\ scrollY' = scrollY
          /\ moved = FALSE
          /\ last' = Did("scrollToAfterLoad", <<>>, FALSE, 0, <<>>, CatchAll(TRUE))
  /\ UNCHANGED <<isLoading, currentPath, scrollPositionCache, entries, index,
                 scrollRestoration, setup, loadResult, updatePending, view, roundTrip>>

\* ------------------------------------------------------------------------
\* onGlobalClick(e)
\* ------------------------------------------------------------------------
Origin == "https://ctzn.test"        \* window.location.origin
OtherOrigin == "https://example.org"

\* the value of an href attribute: an optional scheme and host, then the rest
Href(o, rest) == [present |-> TRUE, origin |-> o, rest |-> rest]
NoHref == [present |-> FALSE, origin |-> "", rest |-> <<>>]   \* getAttribute gives null

Element(tag, href) == [tagName |-> tag, href |-> href]

NotificationsLink == Href("", NOTIFICATIONS \o <<"?", "q", "#", "f">>) \* '/notifications?q#f'
FragmentLink == Href(Origin, <<"#", "f">>)     \* 'https://ctzn.test#f'
ForeignLink == Href(OtherOrigin, NOTIFICATIONS)           \* 'https://example.org/notifications'

Hrefs == {NotificationsLink, FragmentLink, ForeignLink}

Elements ==
  {Element("DIV", NoHref), Element("A", NoHref)} \cup {Element("A", h) : h \in Hrefs}

\* the composed paths of the click events of the model
ComposedPaths == UNION {[1..n -> Elements] : n \in 0..MaxComposed}

ClickEvents == [defaultPrevented : BOOLEAN, composedPath : ComposedPaths]

\* new URL(href, base) for a base that is an origin
URL(href, base) ==
  LET path == PathnameOf(href.rest)
  IN [origin |-> IF href.origin = "" THEN base ELSE href.origin,
      pathname |-> IF path = <<>> THEN <<"/">>
                   ELSE IF Head(path) = "/" THEN path
                   ELSE <<"/">> \o path]

\* lines 171-176: the loop keeps the last element of the path with tagName 'A'
RECURSIVE FindAnchor(_, _, _)
FindAnchor(path, i, anchor) ==
  IF i > Len(path) THEN anchor
  ELSE FindAnchor(path, i + 1, IF path[i].tagName = "A" THEN <<path[i]>> ELSE anchor)

\* the pathname onGlobalClick navigates to, <<>> when it returns early
ClickTarget(e) ==
  IF e.defaultPrevented THEN <<>>
  ELSE LET anchor == FindAnchor(e.composedPath, 1, <<>>) IN
       IF anchor = <<>> THEN <<>>
       ELSE LET href == anchor[1].href IN
            IF ~href.present THEN <<>>
            ELSE LET url == URL(href, Origin) IN
                 IF url.origin = Origin THEN <<url.pathname>> ELSE <<>>

onGlobalClick(e) ==
  LET target == ClickTarget(e) IN
  /\ ~MicrotaskDue
  /\ IF target = <<>>
     THEN /\ last' = [Did("onGlobalClick", <<>>, FALSE, 0, <<>>, FALSE) EXCEPT !.event = e]
          /\ UNCHANGED <<isLoading, currentPath, scrollPositionCache, entries, index,
                         scrollY, scrollRestoration, setup, loadResult, updatePending,
                         view, pending, roundTrip>>
     ELSE /\ navigateTo(target[1])
          /\ last' = [Did("onGlobalClick", target, TRUE, 0,
                          CacheRestoration(scrollPositionCache, target[1]), FALSE)
                        EXCEPT !.event = e, !.left = index' - 1]

\* ------------------------------------------------------------------------
\* The router in the browser
\* ------------------------------------------------------------------------
\* the clicks of the whole-router specification: a link to '/notifications',
\* the same already handled, a link to another site
Clicks ==
  {ClickEvent(FALSE, <<Element("A", NotificationsLink)>>),
   ClickEvent(TRUE, <<Element("A", NotificationsLink)>>),
   ClickEvent(FALSE, <<Element("A", ForeignLink)>>)}

Microtasks ==
  \/ load
  \/ PerformUpdate
  \/ \E hookWorks \in BOOLEAN, moved \in BOOLEAN : scrollToAfterLoad(hookWorks, moved)

Next ==
  \/ \E outcome \in {"fulfilled", "rejected"} : SetupSettles(outcome)
  \/ Microtasks
  \/ \E url \in NavPaths : onNavigateTo(url)
  \/ \E e \in Clicks : onGlobalClick(e)
  \/ \E delta \in {-1, 1} : onHistoryPopstate(delta)
  \/ \E y \in Offsets : UserScroll(y)
  \/ FragmentNavigation

Spec == Init /\ [][Next]_vars

\* a promise reaction that is due does run: load() resumes once
\* session.setup() has settled
FairSpec == Spec /\ WF_vars(load)

\* the update LitElement has enqueued is performed, and a scrollToAfterLoad
\* whose updateComplete is resolved resumes
FairDelivery ==
  /\ Spec
  /\ WF_vars(PerformUpdate)
  /\ SF_vars(\E hookWorks \in BOOLEAN, moved \in BOOLEAN : scrollToAfterLoad(hookWorks, moved))

\* ------------------------------------------------------------------------
\* The router driven by clicks alone, over every click event of the model
\* ------------------------------------------------------------------------
NextClick ==
  \/ \E outcome \in {"fulfilled", "rejected"} : SetupSettles(outcome)
  \/ Microtasks
  \/ \E y \in Offsets : UserScroll(y)
  \/ \E e \in ClickEvents : onGlobalClick(e)

SpecClick == Init /\ [][NextClick]_vars

\* ------------------------------------------------------------------------
\* The router loaded on any path: what render() shows for it
\* ------------------------------------------------------------------------
SegmentPool ==
  {<<"x">>,                                                       \* 'x'
   <<"a", "@", "b">>,                                             \* 'a@b'
   <<"@", "b">>,                                                  \* '@b'
   <<"c", "t", "z", "n", ".", "n", "e", "t", "w", "o", "r", "k">>, \* 'ctzn.network'
   <<"C", "T", "Z", "N", "-", "n", "e", "t", "w", "o", "r", "k">>, \* 'CTZN-network'
   <<"p", "o", "s", "t">>,                                        \* 'post'
   <<"C", "o", "m", "m", "e", "n", "t">>}                         \* 'Comment'

\* '/' + segs[1] + '/' + segs[2] + ...
RECURSIVE Join(_)
Join(segs) == IF segs = <<>> THEN <<>> ELSE <<"/">> \o Head(segs) \o Join(Tail(segs))

THREAD ==   \* '/a@b/ctzn.network/post/123'
  Join(<<<<"a", "@", "b">>, <<"c", "t", "z", "n", ".", "n", "e", "t", "w", "o", "r", "k">>,
         <<"p", "o", "s", "t">>, <<"1", "2", "3">>>>)

\* the paths the router is loaded on
ResolverInputs ==
  EnumeratedPaths \cup {THREAD, THREAD \o <<"/">>, <<>>, <<"/", "/">>}
    \cup {p \o <<"/">> : p \in EnumeratedPaths}
    \cup UNION {{Join(segs) : segs \in [1..n -> SegmentPool]} : n \in 1..MaxSegs}

InitResolve == \E p \in ResolverInputs : InitAt(p)

NextResolve ==
  \/ \E outcome \in {"fulfilled", "rejected"} : SetupSettles(outcome)
  \/ load
  \/ PerformUpdate

SpecResolve == InitResolve /\ [][NextResolve]_vars

\* ------------------------------------------------------------------------
\* The router driven by the requests of its components
\* ------------------------------------------------------------------------
\* e.detail.subject of a 'view-thread' event
Subject(authorId, dbUrl) == [authorId |-> authorId, dbUrl |-> dbUrl]

\* a dbUrl: what stands before the drive key, the key, what follows it
DbUrl(before, key, after) == [before |-> before, key |-> key, after |-> after]

\* dbUrl.split(DRIVE_KEY_REGEX): the parts of the url around the key
Split(dbUrl) == <<dbUrl.before, dbUrl.after>>

\* the post '/ctzn.network/post/123' of the drive of a@b
ThreadSubject ==
  Subject(<<"a", "@", "b">>,
          DbUrl("hyper://", "key",
                Join(<<<<"c", "t", "z", "n", ".", "n", "e", "t", "w", "o", "r", "k">>,
                       <<"p", "o", "s", "t">>, <<"1", "2", "3">>>>)))

Subjects == {ThreadSubject}

\* the 'view-thread' event: navigateTo(`/${authorId}${path}`)
onViewThread(subject) ==
  LET path == Split(subject.dbUrl)[2]
      pathname == <<"/">> \o subject.authorId \o path
  IN /\ navigateTo(pathname)
     /\ last' = [Did("onViewThread", <<pathname>>, FALSE, 0,
                     CacheRestoration(scrollPositionCache, pathname), FALSE)
                   EXCEPT !.left = index' - 1]

NOT_FOUND == <<"/", "x">>                                          \* '/x'
NOTIFICATIONS_QUERY == NOTIFICATIONS \o <<"?", "q", "#", "f">>     \* '/notifications?q#f'

\* the values of e.detail.url of the 'navigate-to' events: two paths and a
\* url with a query and a fragment
RequestUrls == {NOTIFICATIONS, NOT_FOUND, NOTIFICATIONS_QUERY}

NextRequest ==
  \/ \E outcome \in {"fulfilled", "rejected"} : SetupSettles(outcome)
  \/ Microtasks
  \/ \E url \in RequestUrls : onNavigateTo(url)
  \/ \E subject \in Subjects : onViewThread(subject)
  \/ \E delta \in {-1, 1} : onHistoryPopstate(delta)

SpecRequest == Init /\ [][NextRequest]_vars


\* ------------------------------------------------------------------------
\* Properties
\* ------------------------------------------------------------------------

\* C1: after navigateTo('/notifications'), navigateTo('/'),
\* navigateTo('/notifications') the third call has scheduled exactly one
\* scroll restoration, to the offset the window had at the second call, and
\* has left a record for '/' in the cache.
RoundTripRestores ==
  roundTrip.calls = 3 =>
    /\ roundTrip.restored = <<roundTrip.leftAt>>
    /\ scrollPositionCache.defined
    /\ scrollPositionCache.pathname = ROOT

\* the third call of a round trip has just run and restores a nonzero offset
RoundTripWitness ==
  /\ roundTrip.calls = 3
  /\ roundTrip.leftAt > 0
  /\ last.navTo = <<NOTIFICATIONS>>
  /\ last.scheduled = <<roundTrip.leftAt>>
  /\ currentPath = NOTIFICATIONS
  /\ scrollPositionCache.pathname = ROOT

\* C2: a navigateTo(p) step appends a restoration to the pending ones exactly
\* when the cache it started with holds a record whose pathname is p, and the
\* offset appended is the scrollY of that record; otherwise it appends none.
CacheExactness ==
  [][last'.navTo # <<>> =>
       pending' = pending \o
         (IF scrollPositionCache.defined /\ scrollPositionCache.pathname = last'.navTo[1]
          THEN <<scrollPositionCache.scrollY>>
          ELSE <<>>)]_vars

\* navigateTo('/notifications') has just restored a nonzero cached offset
CacheHitWitness ==
  /\ last.navTo = <<NOTIFICATIONS>>
  /\ last.scheduled # <<>>
  /\ last.scheduled[1] > 0
  /\ pending # <<>>

\* the pages whose scroll position the cache may hold
AnchorPages == {ROOT, NOTIFICATIONS}

\* C3: the cache is undefined or one record for '/' or '/notifications'; it
\* changes only in a navigateTo called while currentPath is one of the two,
\* and it is never undefined again once it is defined.
AnchorScoping ==
  /\ [](scrollPositionCache.defined => scrollPositionCache.pathname \in AnchorPages)
  /\ [][scrollPositionCache' # scrollPositionCache =>
          /\ last'.navTo # <<>>
          /\ currentPath \in AnchorPages
          /\ scrollPositionCache'.defined]_vars

\* navigateTo has just left '/index' with a record in the cache
AnchorScopingWitness ==
  /\ last.navTo # <<>>
  /\ last.left > 0
  /\ entries[last.left].pathname = INDEX
  /\ scrollPositionCache.defined
  /\ scrollPositionCache.scrollY > 0

\* C4: when onHistoryPopstate has run, it has emitted 'close-all-popups' once
\* and currentPath is the pathname of the location, whatever the state of the
\* entry.
PopstateAlways ==
  last.op = "onHistoryPopstate" =>
    /\ last.emitted = 1
    /\ currentPath = LocationPathname

\* onHistoryPopstate has run on an entry whose state is null
PopstateNullWitness ==
  /\ last.op = "onHistoryPopstate"
  /\ entries[index].state = NullState
  /\ last.emitted = 1

\* the offset a state holds; null and {} count as holding offset zero
OffsetOf(state) == IF state.kind = "object" /\ state.scrollY >= 0 THEN state.scrollY ELSE 0

\* C5: when back or forward returns to the entry the previous handler left
\* (by navigateTo or by a history activation), the state delivered holds the
\* offset the window had when the entry was left, and a restoration to that
\* offset is scheduled when it is not zero.
ReturnRestores ==
  [][(last.left > 0 /\ last'.op = "onHistoryPopstate" /\ index' = last.left) =>
       /\ OffsetOf(entries[index'].state) = scrollY
       /\ scrollY > 0 => last'.scheduled = <<scrollY>>]_vars

\* the anchors of the composed path of e whose href is of the document's origin
OwnLinks(e) ==
  {i \in DOMAIN e.composedPath :
     /\ e.composedPath[i].tagName = "A"
     /\ e.composedPath[i].href.present
     /\ URL(e.composedPath[i].href, Origin).origin = Origin}

\* C6: onGlobalClick prevents the default and calls navigateTo, once and with
\* the pathname of the link, exactly when the event is not yet prevented and
\* its composed path holds an anchor whose href is of the document's origin;
\* otherwise it prevents nothing, calls nothing and leaves currentPath, the
\* history and the cache alone.
ClickInterception ==
  [][last'.op = "onGlobalClick" =>
       LET e == last'.event IN
       IF ~e.defaultPrevented /\ OwnLinks(e) # {}
       THEN /\ last'.prevented
            /\ Len(last'.navTo) = 1
            /\ \E i \in OwnLinks(e) :
                  last'.navTo[1] = URL(e.composedPath[i].href, Origin).pathname
            /\ currentPath' = last'.navTo[1]
       ELSE /\ ~last'.prevented
            /\ last'.navTo = <<>>
            /\ UNCHANGED <<currentPath, entries, index, scrollPositionCache>>]_vars

\* C7: the flag is raised by the constructor and never raised again.
LoadingOneWay == (isLoading = TRUE) /\ [][isLoading' => isLoading]_vars

\* a navigation and a history activation have run after the flag was lowered
ReadyWitness ==
  /\ ~isLoading
  /\ last.op = "onHistoryPopstate"
  /\ scrollPositionCache.defined

\* C8: once session.setup() has settled the flag is lowered; a rejection
\* becomes the rejection of load(), and the step that lowers the flag leaves
\* currentPath, the history and the cache alone.
BootstrapSettles ==
  /\ (setup # "pending") ~> ~isLoading
  /\ [](loadResult # "pending" => ~isLoading /\ loadResult = setup)
  /\ [][last'.op = "load" =>
          /\ last'.threw = (setup = "rejected")
          /\ UNCHANGED <<currentPath, entries, index, scrollPositionCache>>]_vars

\* session.setup() failed, load() failed with it and the flag is lowered
BootstrapFailedWitness ==
  /\ setup = "rejected"
  /\ loadResult = "rejected"
  /\ last.op = "load"
  /\ last.threw
  /\ ~isLoading

\* the document shows what render() gives for the properties as they are
Rendered == ~updatePending /\ ~isLoading

\* C9: a path one of the thread patterns matches is shown by ctzn-post-view
\* with the path as current-path, though the profile pattern matches it too.
ThreadBeforeProfile ==
  (Rendered /\ (Test(POST_PATH_REGEX, currentPath) \/ Test(COMMENT_PATH_REGEX, currentPath)))
    => /\ view = View("ctzn-post-view", currentPath)
       /\ Test(USER_PATH_REGEX, currentPath)

\* '/a@b/ctzn.network/post/123' is shown by ctzn-post-view
ThreadWitness ==
  /\ Rendered
  /\ currentPath = THREAD
  /\ Test(USER_PATH_REGEX, currentPath)
  /\ view.kind = "ctzn-post-view"

\* the view of each path of the switch that is not a home path
OwnView ==
  (FORGOT_PASSWORD :> "ctzn-forgot-password-view") @@
  (NOTIFICATIONS :> "ctzn-notifications-view") @@
  (COMMUNITIES :> "ctzn-communities-view") @@
  (ACCOUNT :> "ctzn-account-view") @@
  (SEARCH :> "ctzn-search-view") @@
  (SIGNUP :> "ctzn-signup-view")

\* C10: once the flag is lowered every path is shown by exactly one view:
\* the three home paths by ctzn-main-view, each other path of the switch by
\* its own view, a path no pattern matches by the 404 page.
ResolverTotal ==
  Rendered =>
    /\ view.kind \in ViewKinds \ {"spinner"}
    /\ currentPath \in {ROOT, INDEX, INDEX_HTML} => view.kind = "ctzn-main-view"
    /\ currentPath \in DOMAIN OwnView => view.kind = OwnView[currentPath]
    /\ ( /\ currentPath \notin EnumeratedPaths
         /\ ~Test(POST_PATH_REGEX, currentPath)
         /\ ~Test(COMMENT_PATH_REGEX, currentPath)
         /\ ~Test(USER_PATH_REGEX, currentPath) ) => view.kind = "404"

\* '/index.html' is shown by ctzn-main-view
ResolverWitness ==
  /\ Rendered
  /\ currentPath = INDEX_HTML
  /\ view.kind = "ctzn-main-view"

\* C11: when a handler has called navigateTo (for a click, a 'navigate-to'
\* or a 'view-thread' event) or onHistoryPopstate has run, currentPath is the
\* pathname of the location, also when the path resolves to the 404 page.
PathConsistency ==
  (last.navTo # <<>> \/ last.op = "onHistoryPopstate") => currentPath = LocationPathname

\* C12: no handler but load() ends by an exception; onHistoryPopstate ends
\* normally on every entry, also on one whose state is null.
NoOtherFailure == last.threw => last.op = "load"

AnchorViews == {"ctzn-main-view", "ctzn-notifications-view"}

\* C14: a navigateTo step taken while currentPath is a path of the home view
\* ('/', '/index', '/index.html') or of the notifications view leaves the
\* record {pathname: currentPath, scrollY: window.scrollY} in the cache.
AnchorCapture ==
  [][(last'.navTo # <<>> /\ resolve(currentPath).kind \in AnchorViews) =>
       scrollPositionCache' = CacheRecord(currentPath, scrollY)]_vars

\* the positions of the anchors in a composed path, the target's first
AnchorsOf(path) == {i \in DOMAIN path : path[i].tagName = "A"}

\* C15: when the composed path of a click not yet prevented holds anchors,
\* onGlobalClick decides by the href of the first of them, the one nearest
\* to the target: it navigates to its pathname when the href is present and
\* of the document's origin, and does nothing otherwise.
NearestAnchorWins ==
  [][(/\ last'.op = "onGlobalClick"
      /\ ~last'.event.defaultPrevented
      /\ AnchorsOf(last'.event.composedPath) # {}) =>
       LET path == last'.event.composedPath
           nearest == path[CHOOSE i \in AnchorsOf(path) : \A j \in AnchorsOf(path) : i <= j]
       IN IF nearest.href.present /\ URL(nearest.href, Origin).origin = Origin
          THEN /\ last'.navTo = <<URL(nearest.href, Origin).pathname>>
               /\ last'.prevented
          ELSE /\ last'.navTo = <<>>
               /\ ~last'.prevented]_vars

\* the index of the first '/' of path at or after i, Len(path) + 1 when none
RECURSIVE SegmentEnd(_, _)
SegmentEnd(path, i) ==
  IF i > Len(path) THEN i
  ELSE IF path[i] = "/" THEN i
  ELSE SegmentEnd(path, i + 1)

\* the first segment of a path: what stands between its leading '/' and the
\* next one
FirstSegment(path) ==
  IF path = <<>> THEN <<>>
  ELSE LET start == IF path[1] = "/" THEN 2 ELSE 1
       IN SubSeq(path, start, SegmentEnd(path, start) - 1)

\* C16: a path that is not of the switch and that no thread pattern matches
\* is shown by ctzn-user-view when its first segment holds an '@', and by
\* the 404 page when it does not.
ProfilePositional ==
  ( /\ Rendered
    /\ currentPath \notin EnumeratedPaths
    /\ ~Test(POST_PATH_REGEX, currentPath)
    /\ ~Test(COMMENT_PATH_REGEX, currentPath) ) =>
      view.kind = (IF \E i \in DOMAIN FirstSegment(currentPath) :
                        FirstSegment(currentPath)[i] = "@"
                   THEN "ctzn-user-view"
                   ELSE "404")

\* C17: a scrollToAfterLoad that finds no element with id 'view', or one
\* whose pageLoadScrollTo is missing or throws, ends normally; the call is
\* dropped from the pending ones and not made again, and currentPath, the
\* history, the cache and the loading flag are as before.
BestEffort ==
  [][last'.op = "scrollToAfterLoad" =>
       /\ ~last'.threw
       /\ pending' = Tail(pending)
       /\ UNCHANGED <<currentPath, entries, index, scrollPositionCache, isLoading>>]_vars

\* a restoration has just failed on the spinner, which has no element with
\* id 'view'
BestEffortWitness ==
  /\ last.op = "scrollToAfterLoad"
  /\ view.kind = "spinner"
  /\ ~last.threw
  /\ pending = <<>>

\* the steps in which a scrollToAfterLoad call resumes after its await
Deliveries == {"pageLoadScrollTo", "scrollToAfterLoad"}

\* C18: the pending restorations change only by a handler appending the
\* calls it made and by the oldest one resuming; a call resumes when no
\* update is due, on the view of the currentPath of that moment, and hands
\* the view the offset it was scheduled with; while a call is pending one
\* does resume.
NeverCancelled ==
  /\ [][IF last'.op \in Deliveries
        THEN /\ pending # <<>>
             /\ pending' = Tail(pending)
             /\ ~updatePending
             /\ view = render(isLoading, currentPath)
             /\ last'.op = "pageLoadScrollTo" => last'.scheduled = <<Head(pending)>>
        ELSE pending' = pending \o last'.scheduled]_vars
  /\ [](pending # <<>> => <>(last.op \in Deliveries))

\* two restorations were pending, the newer one scheduled by the navigateTo
\* that came back from '/notifications' to '/', the older one before that
\* visit; the older one has just been delivered to the home view with its
\* own offset and the newer one is still to come
NeverCancelledWitness ==
  /\ last.op = "pageLoadScrollTo"
  /\ last.scheduled = <<MaxScroll>>
  /\ pending = <<0>>
  /\ currentPath = ROOT
  /\ view.kind = "ctzn-main-view"
  /\ scrollPositionCache = CacheRecord(NOTIFICATIONS, 0)

\* C19: history.scrollRestoration is 'manual' whenever onHistoryPopstate
\* or a navigateTo has run.
ManualAtFirstUse ==
  (last.op = "onHistoryPopstate" \/ last.navTo # <<>>) => scrollRestoration = "manual"

\* C20: while the flag is raised the document shows the spinner (or nothing
\* yet) whatever currentPath is; navigateTo and onHistoryPopstate change
\* currentPath, the history and the cache without regard to the flag, which
\* they leave alone; once the flag is lowered and the update committed, the
\* view is the one render() gives for the currentPath of that moment.
LoadingNavigation ==
  /\ [](isLoading => view \in {NothingRendered, View("spinner", NoAttr)})
  /\ [](Rendered => view = resolve(currentPath))
  /\ [][last'.navTo # <<>> =>
          /\ currentPath' = last'.navTo[1]
          /\ entries' = StampThenPush(entries, index, scrollY, last'.navTo[1])
          /\ index' = Len(entries')
          /\ scrollPositionCache' = Capture(scrollPositionCache, currentPath, scrollY)
          /\ isLoading' = isLoading]_vars
  /\ [][last'.op = "onHistoryPopstate" =>
          /\ currentPath' = entries[index'].pathname
          /\ UNCHANGED <<entries, scrollPositionCache, isLoading>>]_vars

\* under the spinner a navigateTo has filled the cache and a history
\* activation has brought currentPath to a path the page was not loaded on
LoadingNavigationWitness ==
  /\ isLoading
  /\ view.kind = "spinner"
  /\ last.op = "onHistoryPopstate"
  /\ scrollPositionCache.defined
  /\ Len(entries) = 2
  /\ entries[1].pathname # entries[2].pathname

====
